---- MODULE Spec2Model ----
(***************************************************************************)
(* Model of operadic_consistency/core/transforms.py: collapse plans over a *)
(* Tree of Questions (ToQ), their component roots, the open sub-tree of a  *)
(* component and the quotient tree of a plan.                              *)
(*                                                                         *)
(* A ToQ is [nodes |-> (NodeId -> ToQNode), root_id |-> NodeId].  Every    *)
(* call is one action: it draws its arguments, runs the function and       *)
(* stores the arguments and the outcome.  The functions are pure and the   *)
(* tree is immutable, so a behaviour is a tree followed by one call on it. *)
(* The order in which the mapping toq.nodes yields its keys is read by     *)
(* enumerate_collapse_plans alone (the other functions use the keys as a   *)
(* set, or through children(), which orders by id), so that order is drawn *)
(* with the arguments of that call.                                        *)
(***************************************************************************)
EXTENDS Integers, Sequences, FiniteSets

\* ---------------------------------------------------------------- bounds
MaxId == 3
MaxCutLen == 2

NodeIds == 1..MaxId
None == 0

\* ---------------------------------------------------------------- helpers
Range(s) == {s[i] : i \in DOMAIN s}

MinOf(S) == CHOOSE m \in S : \A x \in S : m <= x

\* sorted(<a set>): the ascending tuple of the set's members
RECURSIVE sorted_set(_)
sorted_set(S) ==
    IF S = {} THEN <<>>
    ELSE LET m == MinOf(S) IN <<m>> \o sorted_set(S \ {m})

\* insertion of x into an ascending sequence, after the members equal to it
RECURSIVE insort(_, _)
insort(s, x) ==
    IF s = <<>> THEN <<x>>
    ELSE IF x < Head(s) THEN <<x>> \o s
    ELSE <<Head(s)>> \o insort(Tail(s), x)

\* sorted(<a tuple>): ascending, duplicates kept
RECURSIVE sorted(_)
sorted(s) ==
    IF s = <<>> THEN <<>>
    ELSE insort(sorted(SubSeq(s, 1, Len(s) - 1)), s[Len(s)])

\* all sequences over S of length at most n
RECURSIVE SeqsUpTo(_, _)
SeqsUpTo(S, n) ==
    IF n = 0 THEN {<<>>}
    ELSE LET shorter == SeqsUpTo(S, n - 1)
         IN shorter \cup {Append(s, x) : s \in {t \in shorter : Len(t) = n - 1}, x \in S}

\* all orders in which a mapping with key set S can yield its keys
Orders(S) == {s \in SeqsUpTo(S, Cardinality(S)) : Len(s) = Cardinality(S) /\ Range(s) = S}

\* ---------------------------------------------------------------- toq_types
ToQNode(id, text, parent) == [id |-> id, text |-> text, parent |-> parent]

ToQ(nodes, root_id) == [nodes |-> nodes, root_id |-> root_id]

OpenToQ(toq, inputs, root_id) == [toq |-> toq, inputs |-> inputs, root_id |-> root_id]

\* the node reached from nid after following parent pointers at most n times,
\* stopping at a parentless node; None when a parent is no key of nodes
RECURSIVE climb(_, _, _)
climb(nodes, nid, n) ==
    IF nid \notin DOMAIN nodes THEN None
    ELSE IF nodes[nid].parent = None \/ n = 0 THEN nid
    ELSE climb(nodes, nodes[nid].parent, n - 1)

\* ToQ.validate: "ok" or the kind of TreeError
validate(t) ==
    IF t.root_id \notin DOMAIN t.nodes THEN "MissingRoot"
    ELSE IF t.nodes[t.root_id].parent # None THEN "MissingRoot"
    ELSE IF \E n \in DOMAIN t.nodes : n # t.root_id /\ t.nodes[n].parent = None
         THEN "MultipleRoots"
    ELSE IF \E n \in DOMAIN t.nodes :
                n # t.root_id /\ t.nodes[n].parent \notin DOMAIN t.nodes
         THEN "DanglingParent"
    ELSE IF \E n \in DOMAIN t.nodes :
                climb(t.nodes, n, Cardinality(DOMAIN t.nodes)) # t.root_id
         THEN "Cycle"
    ELSE "ok"

\* ToQ.children: node id -> its direct children, ordered by id; no entry for a leaf
children(t) ==
    LET kids(u) == {v \in DOMAIN t.nodes : t.nodes[v].parent = u}
    IN [u \in {w \in DOMAIN t.nodes : kids(w) # {}} |-> sorted_set(kids(u))]

\* ch.get(u, [])
ch_get(ch, u) == IF u \in DOMAIN ch THEN ch[u] ELSE <<>>

\* ---------------------------------------------------------------- transforms
CollapsePlan(cut_edges) == [cut_edges |-> cut_edges]

\* itertools.combinations(pool, r): the r-length subsequences of pool, in the
\* lexicographic order of their positions
RECURSIVE combinations(_, _)
combinations(pool, r) ==
    IF r = 0 THEN << <<>> >>
    ELSE IF Len(pool) < r THEN <<>>
    ELSE LET with == combinations(Tail(pool), r - 1)
             without == combinations(Tail(pool), r)
         IN [i \in 1..Len(with) |-> <<Head(pool)>> \o with[i]] \o without

\* the outcome of a call: a returned value, or the kind of error raised
Returned(v) == [status |-> "ok", value |-> v]

Raised(kind) == [status |-> kind, value |-> None]

\* variant of edges_of: the edges put in ascending order first
edges_of_sorted(t, keys) == sorted(SelectSeq(keys, LAMBDA nid : nid # t.root_id))

\* edges: the keys of toq.nodes other than root_id, in the mapping's own order
edges_of(t, keys) == SelectSeq(keys, LAMBDA nid : nid # t.root_id)

\* variant of plan_of: the subset wrapped as the generator gave it
plan_of_unsorted(subset) == CollapsePlan(subset)

\* CollapsePlan(tuple(sorted(subset)))
plan_of(subset) == CollapsePlan(sorted(subset))

\* the loop over r, from r up to n = len(edges)
RECURSIVE plans_from(_, _, _)
plans_from(edges, r, include_empty) ==
    IF r > Len(edges) THEN <<>>
    ELSE LET subsets == combinations(edges, r)
             these == IF r = 0 /\ ~include_empty THEN <<>>
                      ELSE [i \in 1..Len(subsets) |-> plan_of(subsets[i])]
         IN these \o plans_from(edges, r + 1, include_empty)

enumerate_collapse_plans(t, keys, include_empty) ==
    LET v == validate(t)
    IN IF v # "ok" THEN Raised(v)
       ELSE Returned(plans_from(edges_of(t, keys), 0, include_empty))

\* variant of component_roots: the cut edges alone
component_roots_cut_only(t, plan) == sorted_set(Range(plan.cut_edges))

component_roots(t, plan) == sorted_set(Range(plan.cut_edges) \cup {t.root_id})

\* variant of _component_root: the walk does not stop at a cut node
RECURSIVE _component_root_to_top(_, _, _)
_component_root_to_top(t, nid, cut) ==
    LET p == t.nodes[nid].parent
    IN IF p = None THEN nid
       ELSE _component_root_to_top(t, p, cut)

\* walk upward from nid to the first node that is parentless or in cut
RECURSIVE _component_root(_, _, _)
_component_root(t, nid, cut) ==
    LET p == t.nodes[nid].parent
    IN IF p = None THEN nid
       ELSE IF nid \in cut THEN nid
       ELSE _component_root(t, p, cut)

\* variant of walk: a cut child is recorded as an input and still descended into
RECURSIVE walk_through_cut(_, _, _, _, _)
walk_through_cut(ch, cut, stack, internal, frontier) ==
    IF stack = <<>> THEN [internal |-> internal, frontier |-> frontier]
    ELSE LET u == stack[Len(stack)]
             rest == SubSeq(stack, 1, Len(stack) - 1)
             kids == ch_get(ch, u)
         IN IF u \in internal THEN walk_through_cut(ch, cut, rest, internal, frontier)
            ELSE walk_through_cut(ch, cut,
                                  rest \o kids,
                                  internal \cup {u},
                                  frontier \cup {v \in Range(kids) : v \in cut})

\* the traversal of extract_open_toq: the stack is popped at its end
RECURSIVE walk(_, _, _, _, _)
walk(ch, cut, stack, internal, frontier) ==
    IF stack = <<>> THEN [internal |-> internal, frontier |-> frontier]
    ELSE LET u == stack[Len(stack)]
             rest == SubSeq(stack, 1, Len(stack) - 1)
             kids == ch_get(ch, u)
         IN IF u \in internal THEN walk(ch, cut, rest, internal, frontier)
            ELSE walk(ch, cut,
                      rest \o SelectSeq(kids, LAMBDA v : v \notin cut),
                      internal \cup {u},
                      frontier \cup {v \in Range(kids) : v \in cut})

\* variant of induced_nodes: the original parent is kept
induced_nodes_keep_parent(t, internal) ==
    [nid \in internal |->
        LET node == t.nodes[nid]
        IN ToQNode(nid, node.text, node.parent)]

\* the induced nodes: a parent outside internal becomes None
induced_nodes(t, internal) ==
    [nid \in internal |->
        LET node == t.nodes[nid]
        IN ToQNode(nid, node.text,
                   IF node.parent \in internal THEN node.parent ELSE None)]

extract_open_toq(t, plan, root) ==
    LET v == validate(t)
    IN IF v # "ok" THEN Raised(v)
       ELSE LET w == walk(children(t), Range(plan.cut_edges), <<root>>, {}, {})
            IN IF ~(w.internal \subseteq DOMAIN t.nodes) THEN Raised("KeyError")
               ELSE LET open_toq == ToQ(induced_nodes(t, w.internal), root)
                        v2 == validate(open_toq)
                    IN IF v2 # "ok" THEN Raised(v2)
                       ELSE Returned(OpenToQ(open_toq, sorted_set(w.frontier), root))

CollapsedToQ(toq, plan, removed_nodes, collapsed_question_by_root, roots) ==
    [toq |-> toq, plan |-> plan, removed_nodes |-> removed_nodes,
     collapsed_question_by_root |-> collapsed_question_by_root,
     component_roots |-> roots, open_toq_by_root |-> None]

\* variant of invalid_cut: only an id that is no node is rejected
invalid_cut_absent_only(t, cut) == \E c \in cut : c \notin DOMAIN t.nodes

\* the check of the cut edges: the root, an id that is no node, a parentless node
invalid_cut(t, cut) ==
    \/ t.root_id \in cut
    \/ \E c \in cut : c \notin DOMAIN t.nodes \/ t.nodes[c].parent = None

\* variant of missing_question: every node id must have an entry
missing_question_any_node(roots, collapsed_question_by_root) ==
    \E r \in NodeIds : r \notin DOMAIN collapsed_question_by_root

\* the check of the collapsed questions: a component root without an entry
missing_question(roots, collapsed_question_by_root) ==
    \E i \in DOMAIN roots : roots[i] \notin DOMAIN collapsed_question_by_root

\* variant of quotient_parent: the original parent, not its component root
quotient_parent_original(t, r, cut) ==
    IF r = t.root_id THEN None
    ELSE t.nodes[r].parent

\* the parent of the quotient node r
quotient_parent(t, r, cut) ==
    IF r = t.root_id THEN None
    ELSE _component_root(t, t.nodes[r].parent, cut)

quotient_nodes(t, roots, cut, collapsed_question_by_root) ==
    [r \in Range(roots) |->
        ToQNode(r, collapsed_question_by_root[r], quotient_parent(t, r, cut))]

\* variant of removed_nodes_of: the cut edges are kept, the root is not
removed_nodes_of_cut(t, roots) == DOMAIN t.nodes \ (Range(roots) \ {t.root_id})

removed_nodes_of(t, roots) == DOMAIN t.nodes \ Range(roots)

apply_collapse_plan(t, plan, collapsed_question_by_root) ==
    LET v == validate(t)
        cut == Range(plan.cut_edges)
    IN IF v # "ok" THEN Raised(v)
       ELSE IF invalid_cut(t, cut) THEN Raised("InvalidCut")
       ELSE LET roots == component_roots(t, plan)
            IN IF missing_question(roots, collapsed_question_by_root)
                  THEN Raised("MissingCollapsedQuestion")
               ELSE LET new_toq == ToQ(quotient_nodes(t, roots, cut,
                                                      collapsed_question_by_root),
                                       t.root_id)
                        v2 == validate(new_toq)
                    IN IF v2 # "ok" THEN Raised(v2)
                       ELSE Returned(CollapsedToQ(new_toq, plan,
                                                  removed_nodes_of(t, roots),
                                                  collapsed_question_by_root, roots))

\* ---------------------------------------------------------------- state
VARIABLES
    toq,              \* the tree every call is made on
    keys,             \* the order in which toq.nodes yielded its keys to the call
    op,               \* the last call: "none", "enumerate", "roots", "extract", "apply"
    plan,             \* its plan argument
    root,             \* extract_open_toq's root argument
    questions,        \* apply_collapse_plan's collapsed_question_by_root argument
    include_empty,    \* enumerate_collapse_plans' include_empty argument
    result            \* what the call returned or raised

vars == <<toq, keys, op, plan, root, questions, include_empty, result>>

\* the valid trees over the node set S with root r
TreesOn(S, r) ==
    {ToQ([n \in S |-> ToQNode(n, <<"Q", n>>, par[n])], r) :
        par \in {f \in [S -> S \cup {None}] :
                    validate(ToQ([n \in S |-> ToQNode(n, <<"Q", n>>, f[n])], r)) = "ok"}}

ValidToQs == UNION {TreesOn(S, r) : <<S, r>> \in {sr \in (SUBSET NodeIds) \X NodeIds : sr[2] \in sr[1]}}

Plans == {CollapsePlan(s) : s \in SeqsUpTo(NodeIds, MaxCutLen)}

\* the collapsed questions: any set of ids with an entry
QuestionMaps == {[r \in D |-> <<"C", r>>] : D \in SUBSET NodeIds}

NoPlan == CollapsePlan(<<>>)

NoQuestions == [r \in {} |-> <<"C", r>>]

Init ==
    /\ toq \in ValidToQs
    /\ keys = <<>>
    /\ op = "none"
    /\ plan = NoPlan
    /\ root = None
    /\ questions = NoQuestions
    /\ include_empty = TRUE
    /\ result = Raised("none")

Enumerate ==
    /\ op = "none"
    /\ \E b \in BOOLEAN, k \in Orders(DOMAIN toq.nodes) :
        /\ include_empty' = b
        /\ keys' = k
        /\ result' = enumerate_collapse_plans(toq, k, b)
    /\ op' = "enumerate"
    /\ plan' = NoPlan
    /\ root' = None
    /\ questions' = NoQuestions
    /\ UNCHANGED toq

ComponentRoots ==
    /\ op = "none"
    /\ \E p \in Plans :
        /\ plan' = p
        /\ result' = Returned(component_roots(toq, p))
    /\ op' = "roots"
    /\ root' = None
    /\ questions' = NoQuestions
    /\ include_empty' = TRUE
    /\ UNCHANGED <<toq, keys>>

Extract ==
    /\ op = "none"
    /\ \E p \in Plans, r \in NodeIds :
        /\ plan' = p
        /\ root' = r
        /\ result' = extract_open_toq(toq, p, r)
    /\ op' = "extract"
    /\ questions' = NoQuestions
    /\ include_empty' = TRUE
    /\ UNCHANGED <<toq, keys>>

Apply ==
    /\ op = "none"
    /\ \E p \in Plans, q \in QuestionMaps :
        /\ plan' = p
        /\ questions' = q
        /\ result' = apply_collapse_plan(toq, p, q)
    /\ op' = "apply"
    /\ root' = None
    /\ include_empty' = TRUE
    /\ UNCHANGED <<toq, keys>>

Next == Enumerate \/ ComponentRoots \/ Extract \/ Apply

Spec == Init /\ [][Next]_vars

\* ---------------------------------------------------------------- properties
\* the vocabulary of the properties, stated on the tree itself

NodeSet == DOMAIN toq.nodes

Cut == Range(plan.cut_edges)

Roots == Cut \cup {toq.root_id}

ParentOf(n) == toq.nodes[n].parent

\* n, its parent, its grandparent, ... up to the root
RECURSIVE UpPath(_)
UpPath(n) == IF ParentOf(n) = None THEN <<n>> ELSE <<n>> \o UpPath(ParentOf(n))

\* the first member of the sequence path that is in S, None if there is none
RECURSIVE FirstIn(_, _)
FirstIn(path, S) ==
    IF path = <<>> THEN None
    ELSE IF Head(path) \in S THEN Head(path)
    ELSE FirstIn(Tail(path), S)

\* the nearest proper ancestor of n that is a component root
NearestRootAbove(n) == FirstIn(Tail(UpPath(n)), Roots)

\* the nodes reachable from r by child edges without crossing a cut edge: r is on
\* the way up from n, and no node from n up to (excluding) r is a cut node
ReachableFrom(r) ==
    {n \in NodeSet :
        \E i \in DOMAIN UpPath(n) :
            /\ UpPath(n)[i] = r
            /\ \A j \in 1..(i - 1) : UpPath(n)[j] \notin Cut}

\* nodes is a tree rooted at r: r alone is parentless, every parent is a node,
\* and some depth assignment gives every other node one more than its parent
IsTreeRootedAt(nodes, r) ==
    /\ r \in DOMAIN nodes
    /\ \A n \in DOMAIN nodes : (nodes[n].parent = None) <=> (n = r)
    /\ \A n \in DOMAIN nodes \ {r} : nodes[n].parent \in DOMAIN nodes
    /\ \E depth \in [DOMAIN nodes -> 0..(Cardinality(DOMAIN nodes) - 1)] :
          /\ depth[r] = 0
          /\ \A n \in DOMAIN nodes \ {r} : depth[n] = depth[nodes[n].parent] + 1

StrictlyAscending(s) == \A i \in 1..(Len(s) - 1) : s[i] < s[i + 1]

NoDuplicates(s) == \A i, j \in DOMAIN s : i # j => s[i] # s[j]

RECURSIVE Pow2(_)
Pow2(k) == IF k = 0 THEN 1 ELSE 2 * Pow2(k - 1)

\* a is before b: shorter, or as long and smaller at the first position they differ
SizeLexBefore(a, b) ==
    \/ Len(a) < Len(b)
    \/ /\ Len(a) = Len(b)
       /\ \E i \in DOMAIN a :
            /\ a[i] < b[i]
            /\ \A j \in 1..(i - 1) : a[j] = b[j]

\* the cut edges of a plan are nodes of the tree
PlanOverTree == Cut \subseteq NodeSet

\* the cut edges of a plan are well-formed: nodes of the tree, none the root
WellFormedPlan == Cut \subseteq NodeSet \ {toq.root_id}

\* ---- C1
\* C1: for a plan over the tree, the open sub-trees of the component roots
\* cover the tree (internal node ids together with inputs, over all component
\* roots, are exactly the node ids of the tree) and the internal node sets of
\* two distinct component roots are disjoint.
C1_Partition ==
    (op = "extract" /\ PlanOverTree) =>
        LET rs == Range(component_roots(toq, plan))
            open(r) == extract_open_toq(toq, plan, r)
            internal(r) == DOMAIN open(r).value.toq.nodes
        IN /\ \A r \in rs : open(r).status = "ok"
           /\ UNION {internal(r) \cup Range(open(r).value.inputs) : r \in rs} = NodeSet
           /\ \A r1, r2 \in rs : r1 # r2 => internal(r1) \cap internal(r2) = {}

\* a component below the root was extracted with an input of its own, in a
\* tree cut into three components
C1_Witness ==
    /\ op = "extract"
    /\ PlanOverTree
    /\ Cardinality(Roots) = 3
    /\ root \in Roots
    /\ result.status = "ok"
    /\ result.value.inputs # <<>>
    /\ root # toq.root_id

\* ---- C2
\* C2: a successful apply_collapse_plan returns a quotient with one node per
\* component root, a tree rooted at the original root, whose non-root nodes
\* have their parent among the component roots; removed_nodes and the
\* component roots split the original node ids; the empty plan gives the
\* one-node quotient and removes every non-root node.
C2_Quotient ==
    (op = "apply" /\ result.status = "ok") =>
        LET roots == component_roots(toq, plan)
            q == result.value.toq
            removed == result.value.removed_nodes
        IN /\ Cardinality(DOMAIN q.nodes) = Len(roots)
           /\ q.root_id = toq.root_id
           /\ IsTreeRootedAt(q.nodes, toq.root_id)
           /\ validate(q) = "ok"
           /\ \A n \in DOMAIN q.nodes \ {q.root_id} : q.nodes[n].parent \in Range(roots)
           /\ removed \cap Range(roots) = {}
           /\ removed \cup Range(roots) = NodeSet
           /\ plan.cut_edges = <<>> =>
                /\ DOMAIN q.nodes = {toq.root_id}
                /\ removed = NodeSet \ {toq.root_id}

\* a plan with two cut edges was applied to a three-node tree
C2_Witness ==
    /\ op = "apply"
    /\ result.status = "ok"
    /\ Cardinality(DOMAIN result.value.toq.nodes) = 3
    /\ result.value.removed_nodes = {}

\* the empty plan was applied to a three-node tree
C2_WitnessEmptyPlan ==
    /\ op = "apply"
    /\ result.status = "ok"
    /\ plan.cut_edges = <<>>
    /\ Cardinality(result.value.removed_nodes) = 2

\* ---- C3
\* C3: on a tree with k non-root nodes enumerate_collapse_plans returns 2^k
\* plans (2^k - 1, none empty, without include_empty), pairwise distinct, each
\* cut_edges strictly ascending and made of non-root node ids of the tree.
C3_Count ==
    (op = "enumerate") =>
        /\ result.status = "ok"
        /\ LET plans == result.value
               k == Cardinality(NodeSet) - 1
           IN /\ Len(plans) = IF include_empty THEN Pow2(k) ELSE Pow2(k) - 1
              /\ ~include_empty => \A i \in DOMAIN plans : plans[i].cut_edges # <<>>
              /\ NoDuplicates(plans)
              /\ \A i \in DOMAIN plans :
                    /\ StrictlyAscending(plans[i].cut_edges)
                    /\ Range(plans[i].cut_edges) \subseteq NodeSet \ {toq.root_id}

\* the plans of a three-node tree whose keys are not in ascending order were
\* enumerated without the empty plan
C3_Witness ==
    /\ op = "enumerate"
    /\ ~include_empty
    /\ Cardinality(NodeSet) = 3
    /\ ~StrictlyAscending(keys)
    /\ Len(result.value) = 3

\* ---- C4
\* C4: apply_collapse_plan raises InvalidCut and returns nothing when the cut
\* edges contain the root, a parentless node or an id that is no node of the
\* tree, whether or not collapsed questions are missing as well.
C4_InvalidCut ==
    (/\ op = "apply"
     /\ \E c \in Cut : c = toq.root_id \/ c \notin NodeSet \/ ParentOf(c) = None) =>
        /\ result.status = "InvalidCut"
        /\ result.value = None

\* the root was cut and no collapsed question was given at all
C4_Witness ==
    /\ op = "apply"
    /\ toq.root_id \in Cut
    /\ questions = NoQuestions
    /\ result.status = "InvalidCut"

\* an id that is no node of the tree was cut and its collapsed question is missing
C4_WitnessAbsent ==
    /\ op = "apply"
    /\ toq.root_id \notin Cut
    /\ \E c \in Cut : c \notin NodeSet /\ c \notin DOMAIN questions
    /\ result.status = "InvalidCut"

C5_WitnessOthersMissing ==
    /\ op = "apply"
    /\ WellFormedPlan
    /\ Roots \subseteq DOMAIN questions
    /\ NodeSet \ DOMAIN questions # {}
    /\ result.status = "ok"

\* ---- C6
\* C6 as stated: for every plan component_roots contains root_id, is ascending
\* and has |cut_edges| + 1 elements.
C6_AsStated ==
    (op = "roots") =>
        /\ toq.root_id \in Range(result.value)
        /\ StrictlyAscending(result.value)
        /\ Len(result.value) = Len(plan.cut_edges) + 1

\* C6 amended: for every plan component_roots is the ascending, duplicate-free
\* tuple of {root_id} united with the set of cut edges; it has
\* |set(cut_edges) \ {root_id}| + 1 elements, which is |cut_edges| + 1 when the
\* cut edges are pairwise distinct and none is root_id.
C6_Amended ==
    (op = "roots") =>
        /\ toq.root_id \in Range(result.value)
        /\ StrictlyAscending(result.value)
        /\ Range(result.value) = Cut \cup {toq.root_id}
        /\ Len(result.value) = Cardinality(Cut \ {toq.root_id}) + 1
        /\ (NoDuplicates(plan.cut_edges) /\ toq.root_id \notin Cut) =>
                Len(result.value) = Len(plan.cut_edges) + 1

\* the component roots of a plan with two distinct cut edges, neither the root
C6_Witness ==
    /\ op = "roots"
    /\ Len(plan.cut_edges) = 2
    /\ NoDuplicates(plan.cut_edges)
    /\ toq.root_id \notin Cut
    /\ Len(result.value) = 3

\* ---- C7
\* the position of the node id x in the key order of toq.nodes
KeyPos(x) == CHOOSE i \in DOMAIN keys : keys[i] = x

\* the positions of a plan's cut edges in the key order, ascending
KeyPositions(p) == sorted_set({KeyPos(x) : x \in Range(p.cut_edges)})

\* C7 as stated: the plans come by size and, within a size, in the
\* lexicographic order of their ascending id tuples, whatever the order in
\* which toq.nodes holds the nodes.
C7_AsStated ==
    (op = "enumerate") =>
        \A i, j \in DOMAIN result.value :
            i < j => SizeLexBefore(result.value[i].cut_edges, result.value[j].cut_edges)

\* C7 amended: the plans come by size and, within a size, in the lexicographic
\* order of the positions their cut edges have in the key order of toq.nodes;
\* this is the order of the ascending id tuples when toq.nodes yields its keys
\* in ascending order.
C7_Amended ==
    (op = "enumerate") =>
        /\ result.status = "ok"
        /\ \A i, j \in DOMAIN result.value :
              i < j => SizeLexBefore(KeyPositions(result.value[i]),
                                     KeyPositions(result.value[j]))
        /\ StrictlyAscending(keys) =>
              \A i, j \in DOMAIN result.value :
                  i < j => SizeLexBefore(result.value[i].cut_edges,
                                         result.value[j].cut_edges)

\* all four plans of a three-node tree whose non-root keys are held in
\* descending order
C7_Witness ==
    /\ op = "enumerate"
    /\ include_empty
    /\ Len(result.value) = 4
    /\ LET e == edges_of(toq, keys) IN e[1] > e[2]
    /\ result.value[2].cut_edges[1] > result.value[3].cut_edges[1]

\* ---- C8
\* C8: for a component root r that is a node of the tree, extract_open_toq
\* returns the open sub-tree whose internal nodes are the nodes reachable from
\* r without crossing a cut edge (the nodes whose component root is r), whose
\* inputs are the ascending cut children of internal nodes, whose root_id is r
\* (also the root_id of its toq), and whose toq is a tree with r alone
\* parentless.
C8_Extract ==
    (op = "extract" /\ root \in Roots /\ root \in NodeSet) =>
        /\ result.status = "ok"
        /\ LET o == result.value
               internal == DOMAIN o.toq.nodes
           IN /\ internal = ReachableFrom(root)
              /\ internal = {n \in NodeSet : _component_root(toq, n, Cut) = root}
              /\ Range(o.inputs) =
                    {v \in NodeSet : ParentOf(v) \in internal /\ v \in Cut}
              /\ StrictlyAscending(o.inputs)
              /\ o.root_id = root
              /\ o.toq.root_id = root
              /\ IsTreeRootedAt(o.toq.nodes, root)
              /\ validate(o.toq) = "ok"
              /\ \A n \in internal :
                    /\ o.toq.nodes[n].id = n
                    /\ o.toq.nodes[n].text = toq.nodes[n].text

\* the component of a cut node with an internal node and an input below it
C8_Witness ==
    /\ op = "extract"
    /\ root \in Cut
    /\ root \in NodeSet
    /\ root # toq.root_id
    /\ result.status = "ok"
    /\ Len(result.value.inputs) = 1
    /\ Cardinality(DOMAIN result.value.toq.nodes) = 1

\* the component of a cut node that keeps a child inside
C8_WitnessInternalChild ==
    /\ op = "extract"
    /\ root \in Cut
    /\ root # toq.root_id
    /\ result.status = "ok"
    /\ Cardinality(DOMAIN result.value.toq.nodes) = 2

\* ---- C9
\* C9: in the quotient the global root is parentless and every other
\* component root r has the parent _component_root(toq, parent(r), cut), which
\* is the nearest proper ancestor of r that is a component root.
C9_QuotientParent ==
    (op = "apply" /\ result.status = "ok") =>
        LET q == result.value.toq
        IN /\ q.nodes[toq.root_id].parent = None
           /\ \A r \in DOMAIN q.nodes \ {toq.root_id} :
                /\ q.nodes[r].parent = _component_root(toq, ParentOf(r), Cut)
                /\ q.nodes[r].parent = NearestRootAbove(r)

\* a quotient in which a cut node hangs below another cut node
C9_Witness ==
    /\ op = "apply"
    /\ result.status = "ok"
    /\ \E r \in Cut : result.value.toq.nodes[r].parent \in Cut

\* a quotient edge that skips a contracted node
C9_WitnessSkip ==
    /\ op = "apply"
    /\ result.status = "ok"
    /\ \E r \in Cut : result.value.toq.nodes[r].parent # ParentOf(r)

\* ---- C10
\* the plans enumerate_collapse_plans returns for the tree
EnumeratedPlans ==
    UNION {Range(enumerate_collapse_plans(toq, k, TRUE).value) : k \in Orders(NodeSet)}

\* C10: an enumerated plan applied with a collapsed question for every
\* component root succeeds, and the quotient nodes whose parent is the
\* component root r are exactly the inputs of the open sub-tree extracted at r.
C10_Agreement ==
    (op = "apply" /\ Roots \subseteq DOMAIN questions /\ plan \in EnumeratedPlans) =>
        /\ result.status = "ok"
        /\ LET q == result.value.toq
           IN \A r \in Roots :
                {n \in DOMAIN q.nodes : q.nodes[n].parent = r} =
                    Range(extract_open_toq(toq, plan, r).value.inputs)

\* an enumerated plan with two cut edges, one below the other
C10_Witness ==
    /\ op = "apply"
    /\ Roots \subseteq DOMAIN questions
    /\ result.status = "ok"
    /\ Cardinality(Cut) = 2
    /\ plan \in EnumeratedPlans
    /\ \E r \in Cut : extract_open_toq(toq, plan, r).value.inputs # <<>>

====
